---- MODULE Spec2Model ----
(***************************************************************************)
(* polylib: sparse single-variable polynomials over a generic coefficient  *)
(* ring (src/src/polynom.rs), with the identity capabilities of            *)
(* src/src/lib.rs and the ring types of src/src/custom_types.              *)
(*                                                                         *)
(* A polynomial is the vector `members` of (coefficient, Powered) pairs.   *)
(* The state machine holds one polynomial value `p`; every action is one   *)
(* public operation applied to it, with its arguments drawn from bounded   *)
(* pools.  Operators that consume their receiver replace `p` by the value  *)
(* they return; operators that borrow it leave `p` alone and put what they *)
(* return in `res`.  A u32 addition that overflows panics in a build with  *)
(* overflow checks and wraps in a build without: both outcomes are steps.  *)
(***************************************************************************)
EXTENDS Integers, Sequences, FiniteSets, TLC

VARIABLES
    ring,       \* the coefficient type T: "i32" or "zn" (Zn<ZnN>)
    p,          \* the polynomial value currently held (its members vector)
    op,         \* the operation applied last
    recv,       \* the receiver the last operation was applied to
    argp,       \* the polynomial argument of the last operation
    argv,       \* the ring value / point argument of the last operation, as <<v>>
    argn,       \* the u32 argument of the last operation (index or power)
    res,        \* what a borrowing operation returned, as <<value>> (<<>>: None / nothing)
    panicked,   \* the operation aborted with a panic
    steps,      \* operations applied so far
    kind,       \* the type of the point of the last operation: "t" (the
                \* coefficient type) or "mat" (Matrix<Dim, Dim, i32>)
    zn,         \* a Zn<N> value on its own: [n |-> N, v |-> the stored u32]
    mat,        \* a Matrix<N, M, i32> on its own: [n |-> N, m |-> M, data |-> its Vec]
    loop        \* one call of Powered::substitude, pass by pass: its position
                \* pc, its locals ans, to_mul and pow, and the passes, squarings
                \* and multiplications into ans it has made

vars == <<ring, p, op, recv, argp, argv, argn, res, panicked, steps, kind, zn, mat, loop>>

(***************************************************************************)
(* Bounds of the model.                                                    *)
(***************************************************************************)
\* longest polynomial the host starts from, and longest polynomial argument
MaxLen == 2
\* operations applied in a row
MaxSteps == 3
\* largest power handed to Polynomial::pow
MaxPow == 3
\* longest product Polynomial * Polynomial is asked for (pow: its first square)
MaxMulLen == 4
\* most terms a sum or difference of two polynomials is asked for
MaxTerms == 4
\* longest coefficient list handed to Polynomial::from_coefs
MaxCoefs == 4

(***************************************************************************)
(* u32, the type of Powered::power: a pair <<hi, lo>> of 16-bit halves,    *)
(* value hi * 2^16 + lo.                                                   *)
(***************************************************************************)
Half == 65536

U32(hi, lo) == <<hi, lo>>

U32OfNat(n) == <<n \div Half, n % Half>>

U32IsZero(u) == u[1] = 0 /\ u[2] = 0

\* the order sort_by_key sorts by
U32Lt(a, b) == a[1] < b[1] \/ (a[1] = b[1] /\ a[2] < b[2])

\* pow & 1 == 1
U32Odd(u) == u[2] % 2 = 1

\* pow >>= 1
U32Shr1(u) == <<u[1] \div 2, (u[2] \div 2) + (u[1] % 2) * (Half \div 2)>>

\* self.power + rhs.power exceeds u32::MAX
U32AddOverflows(a, b) == a[1] + b[1] + ((a[2] + b[2]) \div Half) >= Half

\* self.power + rhs.power as the build without overflow checks computes it
U32WrappingAdd(a, b) ==
    <<(a[1] + b[1] + ((a[2] + b[2]) \div Half)) % Half, (a[2] + b[2]) % Half>>

\* a - b on u32 without overflow checks (two's complement wrap)
U32WrappingSub(a, b) ==
    LET borrow == IF a[2] < b[2] THEN 1 ELSE 0
    IN  <<(a[1] - b[1] - borrow + Half) % Half, (a[2] - b[2] + Half) % Half>>

\* a - b overflows u32 (b > a)
\* a * b on u32 by shift and add over the bits of b; loc holds the sum
\* acc, the shifted a and whether it lost bits, the bits of b left, and
\* whether the exact product left 32 bits
RECURSIVE U32MulLoop(_)
U32MulLoop(loc) ==
    IF U32IsZero(loc.b) THEN [val |-> loc.acc, ovf |-> loc.ovf]
    ELSE U32MulLoop(
            [acc |-> IF U32Odd(loc.b) THEN U32WrappingAdd(loc.acc, loc.sh) ELSE loc.acc,
             ovf |-> loc.ovf \/ (U32Odd(loc.b) /\ (loc.lost \/ U32AddOverflows(loc.acc, loc.sh))),
             sh |-> U32WrappingAdd(loc.sh, loc.sh),
             lost |-> loc.lost \/ U32AddOverflows(loc.sh, loc.sh),
             b |-> U32Shr1(loc.b)])

U32Mul(a, b) ==
    U32MulLoop([acc |-> <<0, 0>>, ovf |-> FALSE, sh |-> a, lost |-> FALSE, b |-> b])

\* bit i of u, i in 0..31
U32Bit(u, i) == IF i < 16 THEN (u[2] \div (2 ^ i)) % 2 ELSE (u[1] \div (2 ^ (i - 16))) % 2

\* x + y mod n for x, y < n, without leaving 32 bits
U32AddMod(x, y, n) ==
    IF U32Lt(x, U32WrappingSub(n, y)) THEN U32WrappingAdd(x, y)
    ELSE U32WrappingSub(x, U32WrappingSub(n, y))

\* x % n on u32, n > 0, bit by bit from the top; loc holds the bit index
\* i and the remainder r so far
RECURSIVE U32RemLoop(_, _, _)
U32RemLoop(x, n, loc) ==
    IF loc.i < 0 THEN loc.r
    ELSE U32RemLoop(x, n,
            [i |-> loc.i - 1,
             r |-> U32AddMod(U32AddMod(loc.r, loc.r, n),
                             IF U32Bit(x, loc.i) = 1 /\ n # <<0, 1>>
                             THEN <<0, 1>> ELSE <<0, 0>>,
                             n)])

\* x % n: x itself below n, 16 and 8 bits of x at a time for n below 2^16,
\* bit by bit otherwise
U32Rem(x, n) ==
    IF U32Lt(x, n) THEN x
    ELSE IF n[1] = 0
    THEN LET r1 == x[1] % n[2]
             r2 == (r1 * 256 + (x[2] \div 256)) % n[2]
         IN  <<0, (r2 * 256 + (x[2] % 256)) % n[2]>>
    ELSE U32RemLoop(x, n, [i |-> 31, r |-> <<0, 0>>])

(***************************************************************************)
(* The coefficient ring T.  "zn" is Zn<ZnN> (custom_types/zn.rs); "i32" is *)
(* the primitive, with Zero/One from the blanket impl of lib.rs.           *)
(***************************************************************************)
ZnN == 3

ZnNew(value) == value % ZnN

ZnAdd(a, b) == (a + b) % ZnN

ZnMul(a, b) == (a * b) % ZnN

\* Zn::<N>::new(value), for any N: value % N, a remainder that panics in
\* every build when N is zero; the operators below end in the same % N,
\* and chk is a build with overflow checks
ZnNewN(n, value) ==
    IF U32IsZero(n) THEN [panic |-> TRUE, val |-> U32(0, 0)]
    ELSE [panic |-> FALSE, val |-> U32Rem(value, n)]

ZnZeroN(n) == ZnNewN(n, U32(0, 0))

\* a one() that builds new(0)
ZnOneAsZero(n) == ZnNewN(n, U32(0, 0))

ZnOneN(n) ==
    IF U32IsZero(n) THEN [panic |-> TRUE, val |-> U32(0, 0)]
    ELSE ZnNewN(n, U32(0, 1))

\* Zero::is_zero and One::is_one of Zn: the stored value against 0 and 1
ZnIsZeroN(v) == v = U32(0, 0)

ZnIsOneN(v) == v = U32(0, 1)

ZnAddN(n, chk, a, b) ==
    IF chk /\ U32AddOverflows(a, b) THEN [panic |-> TRUE, val |-> U32(0, 0)]
    ELSE ZnNewN(n, U32WrappingAdd(a, b))

\* a subtraction that keeps self.0 + N - rhs.0 as it is
ZnSubNoRem(n, chk, a, b) ==
    [panic |-> FALSE, val |-> U32WrappingSub(U32WrappingAdd(a, n), b)]

ZnSubN(n, chk, a, b) ==
    LET s == U32WrappingAdd(a, n)
    IN  IF chk /\ (U32AddOverflows(a, n) \/ U32Lt(s, b))
        THEN [panic |-> TRUE, val |-> U32(0, 0)]
        ELSE ZnNewN(n, U32WrappingSub(s, b))

ZnMulN(n, chk, a, b) ==
    IF chk /\ U32Mul(a, b).ovf THEN [panic |-> TRUE, val |-> U32(0, 0)]
    ELSE ZnNewN(n, U32Mul(a, b).val)

TZero(r) == IF r = "zn" THEN ZnNew(0) ELSE 0

TOne(r) == IF r = "zn" THEN ZnNew(1) ELSE 1

\* is_zero that never recognises zero
TIsZeroNever(r, c) == FALSE

TIsZero(r, c) == IF r = "zn" THEN c = 0 ELSE c = TZero(r)

TIsOne(r, c) == IF r = "zn" THEN c = 1 ELSE c = TOne(r)

TAdd(r, a, b) == IF r = "zn" THEN ZnAdd(a, b) ELSE a + b

TMul(r, a, b) == IF r = "zn" THEN ZnMul(a, b) ELSE a * b

\* Neg exists for i32 only: Zn implements no Neg
TNeg(r, a) == 0 - a

(***************************************************************************)
(* Polynomial<T, U>: members is a sequence of [coef, power].               *)
(***************************************************************************)
PolyNew == <<>>

Push(members, coef, power) == Append(members, [coef |-> coef, power |-> power])

PoweredDefault == U32(0, 0)

NewConst(value) == Push(PolyNew, value, PoweredDefault)

\* X::pow / X ^ n: the monomial one * x^power
XPow(r, power) == Push(PolyNew, TOne(r), power)

\* Polynomial::from_coefs: the loop over coefs with the running power
RECURSIVE FromCoefsLoop(_, _, _, _, _)
FromCoefsLoop(r, coefs, i, power, v) ==
    IF i > Len(coefs) THEN v
    ELSE IF TIsZero(r, coefs[i])
    THEN FromCoefsLoop(r, coefs, i + 1, power + 1, v)
    ELSE FromCoefsLoop(r, coefs, i + 1, power + 1,
                       Push(v, coefs[i], U32OfNat(power)))

\* a from_coefs that does not count the zero entries it skips
FromCoefsPacked(r, coefs) ==
    FromCoefsLoop(r, SelectSeq(coefs, LAMBDA c : c # 0), 1, 0, PolyNew)

FromCoefs(r, coefs) == FromCoefsLoop(r, coefs, 1, 0, PolyNew)

PolyLen(members) == Len(members)

\* Option<&T>: <<>> is None, <<c>> is Some(c)
RECURSIVE GetFrom(_, _, _)
GetFrom(members, index, i) ==
    IF i > Len(members) THEN <<>>
    ELSE IF members[i].power # index THEN GetFrom(members, index, i + 1)
    ELSE <<members[i].coef>>

\* a get that returns the last term of the exponent
PolyGetLast(members, index) ==
    LET s == SelectSeq(members, LAMBDA t : t.power = index)
    IN  IF s = <<>> THEN <<>> ELSE <<s[Len(s)].coef>>

PolyGet(members, index) == GetFrom(members, index, 1)

\* impl Add for Polynomial: push every member of rhs
PolyAdd(a, b) == a \o b

\* impl Add<T> for Polynomial
\* an addition of a value that skips a zero value
PolyAddConstSkipZero(a, v) == IF v = 0 THEN a ELSE Push(a, v, PoweredDefault)

PolyAddConst(a, v) == Push(a, v, PoweredDefault)

\* impl Neg for Polynomial: push -memb.0 for every member
RECURSIVE NegLoop(_, _, _, _)
NegLoop(r, members, i, ans) ==
    IF i > Len(members) THEN ans
    ELSE NegLoop(r, members, i + 1,
                 Push(ans, TNeg(r, members[i].coef), members[i].power))

PolyNeg(r, a) == NegLoop(r, a, 1, PolyNew)

\* impl Sub<A> for Polynomial
PolySubConst(r, a, v) == Push(a, TNeg(r, v), PoweredDefault)

\* impl Sub for Polynomial
\* a subtraction that forgets to negate
PolySubAdds(r, a, b) == PolyAdd(a, b)

PolySub(r, a, b) == PolyAdd(a, PolyNeg(r, b))

\* impl Mul<T> for Polynomial: push memb.0 * rhs for every member
RECURSIVE ScalarLoop(_, _, _, _, _)
ScalarLoop(r, members, v, i, ans) ==
    IF i > Len(members) THEN ans
    ELSE ScalarLoop(r, members, v, i + 1,
                    Push(ans, TMul(r, members[i].coef, v), members[i].power))

PolyMulScalar(r, a, v) == ScalarLoop(r, a, v, 1, PolyNew)

(***************************************************************************)
(* reduce: stable sort by power, then one merging pass.                    *)
(***************************************************************************)
\* one step of the stable sort: t goes after every member whose key is <= its own
RECURSIVE InsertByKey(_, _)
InsertByKey(sorted, t) ==
    IF sorted = <<>> THEN <<t>>
    ELSE IF U32Lt(t.power, Head(sorted).power) THEN <<t>> \o sorted
    ELSE <<Head(sorted)>> \o InsertByKey(Tail(sorted), t)

RECURSIVE SortFrom(_, _, _)
SortFrom(members, i, sorted) ==
    IF i > Len(members) THEN sorted
    ELSE SortFrom(members, i + 1, InsertByKey(sorted, members[i]))

\* reduce without its sort
SortByKeyUnsorted(members) == members

SortByKey(members) == SortFrom(members, 1, <<>>)

RECURSIVE ReduceLoop(_, _, _, _, _, _)
ReduceLoop(r, members, i, coef, pow, ans) ==
    IF i > Len(members)
    THEN IF ~TIsZero(r, coef) THEN Push(ans, coef, pow) ELSE ans
    ELSE IF members[i].power = pow
    THEN ReduceLoop(r, members, i + 1, TAdd(r, coef, members[i].coef), pow, ans)
    ELSE ReduceLoop(r, members, i + 1, members[i].coef, members[i].power,
                    IF ~TIsZero(r, coef) THEN Push(ans, coef, pow) ELSE ans)

\* reduce whose running coefficient starts at zero, not at members[0]
ReduceDropFirst(r, members) ==
    IF members = <<>> THEN members
    ELSE LET sorted == SortByKey(members)
         IN  ReduceLoop(r, sorted, 2, TZero(r), sorted[1].power, PolyNew)

\* reduce that merges neighbours first and sorts afterwards
ReduceSortLast(r, members) ==
    IF members = <<>> THEN members
    ELSE SortByKey(ReduceLoop(r, members, 2, members[1].coef, members[1].power, PolyNew))

Reduce(r, members) ==
    IF members = <<>> THEN members
    ELSE LET sorted == SortByKey(members)
         IN  ReduceLoop(r, sorted, 2, sorted[1].coef, sorted[1].power, PolyNew)

(***************************************************************************)
(* impl Mul for Polynomial: the nested loops, memb1 outer, memb2 inner.    *)
(* The power of each product is Powered + Powered, a u32 addition: the     *)
(* build with overflow checks panics when it overflows, the other wraps.   *)
(***************************************************************************)
PoweredAdd(a, b) == U32WrappingAdd(a, b)

\* the inner loop over rhs.members; loc holds the index j and ans
RECURSIVE MulInner(_, _, _, _)
MulInner(r, memb1, rhs, loc) ==
    IF loc.j > Len(rhs) THEN loc.ans
    ELSE MulInner(r, memb1, rhs,
                  [j |-> loc.j + 1,
                   ans |-> Push(loc.ans, TMul(r, memb1.coef, rhs[loc.j].coef),
                                PoweredAdd(memb1.power, rhs[loc.j].power))])

\* the outer loop over self.members; loc holds the index i and ans
RECURSIVE MulOuter(_, _, _, _)
MulOuter(r, lhs, rhs, loc) ==
    IF loc.i > Len(lhs) THEN loc.ans
    ELSE MulOuter(r, lhs, rhs,
                  [i |-> loc.i + 1,
                   ans |-> MulInner(r, lhs[loc.i], rhs, [j |-> 1, ans |-> loc.ans])])

PolyMul(r, a, b) == MulOuter(r, a, b, [i |-> 1, ans |-> PolyNew])

\* some Powered + Powered of the product overflows u32
PolyMulOverflows(a, b) ==
    \E i \in 1..Len(a) : \E j \in 1..Len(b) : U32AddOverflows(a[i].power, b[j].power)

\* impl One / Zero for Polynomial
\* a one() built from the additive identity
PolyOneFromZero(r) == NewConst(TZero(r))

PolyOne(r) == NewConst(TOne(r))

\* a zero() built from the multiplicative identity
PolyZeroFromOne(r) == NewConst(TOne(r))

PolyZero(r) == NewConst(TZero(r))

\* an is_zero / is_one that answers from the reduced list
PolyIsZeroAnswers(r, members) ==
    [panic |-> FALSE, val |-> members = <<>>]

\* is_zero and is_one of a Polynomial: panic!, whatever the polynomial
PolyIsZero(r, members) == [panic |-> TRUE, val |-> FALSE]

PolyIsOne(r, members) == [panic |-> TRUE, val |-> FALSE]

(***************************************************************************)
(* Matrix<N, M, i32> (custom_types/matrix.rs): data is the row-major       *)
(* sequence of its N*M elements.                                           *)
(***************************************************************************)
Dim == 2

\* vec![value; N * M]
RECURSIVE MatFill(_, _, _)
MatFill(count, value, data) ==
    IF Len(data) >= count THEN data ELSE MatFill(count, value, Append(data, value))

MatFull(n, m, value) == MatFill(n * m, value, <<>>)

\* full(zero), then ans[(i, i)] = value for i < min(N, M)
RECURSIVE EyeLoop(_, _, _, _, _)
EyeLoop(n, m, value, i, data) ==
    IF i >= n \/ i >= m THEN data
    ELSE EyeLoop(n, m, value, i + 1, [data EXCEPT ![i * m + i + 1] = value])

MatEye(n, m, value) == EyeLoop(n, m, value, 0, MatFull(n, m, 0))

MatZero(n, m) == MatFull(n, m, 0)

MatOne(n) == MatEye(n, n, 1)

\* self[(i, j)], zero-based
MatAt(m, a, i, j) == a[i * m + j + 1]

\* self[(i, j)] += rhs[(i, j)], element by element
RECURSIVE MatAddLoop(_, _, _, _)
MatAddLoop(a, b, x, data) ==
    IF x > Len(a) THEN data
    ELSE MatAddLoop(a, b, x + 1, Append(data, a[x] + b[x]))

MatAdd(a, b) == MatAddLoop(a, b, 1, <<>>)

\* ans[(n, m)] += self[(n, k)] * rhs[(k, m)], k ascending
RECURSIVE MatDot(_, _, _, _, _, _, _, _)
MatDot(kk, mm, a, b, i, j, k, acc) ==
    IF k >= kk THEN acc
    ELSE MatDot(kk, mm, a, b, i, j, k + 1, acc + MatAt(kk, a, i, k) * MatAt(mm, b, k, j))

RECURSIVE MatMulLoop(_, _, _, _, _, _, _)
MatMulLoop(nn, kk, mm, a, b, x, data) ==
    IF x > nn * mm THEN data
    ELSE MatMulLoop(nn, kk, mm, a, b, x + 1,
                    Append(data, MatDot(kk, mm, a, b, (x - 1) \div mm, (x - 1) % mm, 0, 0)))

MatMul(nn, kk, mm, a, b) == MatMulLoop(nn, kk, mm, a, b, 1, <<>>)

\* Matrix * A and i32 * Matrix: every element *= the scalar
RECURSIVE MatScaleLoop(_, _, _, _)
MatScaleLoop(a, s, x, data) ==
    IF x > Len(a) THEN data
    ELSE MatScaleLoop(a, s, x + 1, Append(data, a[x] * s))

MatScale(a, s) == MatScaleLoop(a, s, 1, <<>>)

\* self[(i, j)] = -self[(i, j)] for every element
MatNeg(a) == [x \in 1..Len(a) |-> 0 - a[x]]

\* self[(i, j)] -= rhs[(i, j)] for every element
MatSub(a, b) == [x \in 1..Len(a) |-> a[x] - b[x]]

\* a Matrix<n, m, i32> holding data
Matrix(n, m, data) == [n |-> n, m |-> m, data |-> data]

\* a from_data that takes any list
MatrixFromDataUnchecked(n, m, data) == [panic |-> FALSE, val |-> Matrix(n, m, data)]

\* Matrix::<N, M, T>::from_data(data): panics unless data.len() == N * M
MatrixFromData(n, m, data) ==
    IF Len(data) # n * m THEN [panic |-> TRUE, val |-> Matrix(n, m, <<>>)]
    ELSE [panic |-> FALSE, val |-> Matrix(n, m, data)]

\* a set_data that takes any list
MatrixSetDataUnchecked(a, data) == [panic |-> FALSE, val |-> [a EXCEPT !.data = data]]

\* self.set_data(data): panics, before it assigns, unless data.len() == N * M
MatrixSetData(a, data) ==
    IF Len(data) # a.n * a.m THEN [panic |-> TRUE, val |-> a]
    ELSE [panic |-> FALSE, val |-> [a EXCEPT !.data = data]]

\* an index that checks the row only
MatrixIndexRowOnly(a, i, j) ==
    IF i >= a.n \/ i * a.m + j + 1 > Len(a.data) THEN [panic |-> TRUE, val |-> 0]
    ELSE [panic |-> FALSE, val |-> a.data[i * a.m + j + 1]]

\* self[(i, j)]: panics if i >= N or j >= M, else &self.data[i * M + j]
MatrixIndex(a, i, j) ==
    IF i >= a.n THEN [panic |-> TRUE, val |-> 0]
    ELSE IF j >= a.m THEN [panic |-> TRUE, val |-> 0]
    ELSE [panic |-> FALSE, val |-> a.data[i * a.m + j + 1]]

\* self[(i, j)] = value
MatrixIndexMut(a, i, j, value) ==
    IF i >= a.n THEN [panic |-> TRUE, val |-> a]
    ELSE IF j >= a.m THEN [panic |-> TRUE, val |-> a]
    ELSE [panic |-> FALSE, val |-> [a EXCEPT !.data[i * a.m + j + 1] = value]]

\* Matrix<N, K> * Matrix<K, M>
MatrixMul(a, b) == Matrix(a.n, b.m, MatMul(a.n, a.m, b.m, a.data, b.data))


(***************************************************************************)
(* The type U a term power is substituted with: "t" a value of the ring r, *)
(* "mat" a Matrix<Dim, Dim, i32>, "poly" a Polynomial over r.              *)
(***************************************************************************)
UOne(k, r) ==
    CASE k = "t" -> TOne(r)
      [] k = "mat" -> MatOne(Dim)
      [] k = "poly" -> PolyOne(r)

UZero(k, r) ==
    CASE k = "t" -> TZero(r)
      [] k = "mat" -> MatZero(Dim, Dim)
      [] k = "poly" -> PolyZero(r)

UMul(k, r, a, b) ==
    CASE k = "t" -> TMul(r, a, b)
      [] k = "mat" -> MatMul(Dim, Dim, Dim, a, b)
      [] k = "poly" -> PolyMul(r, a, b)

UAdd(k, r, a, b) ==
    CASE k = "t" -> TAdd(r, a, b)
      [] k = "mat" -> MatAdd(a, b)
      [] k = "poly" -> PolyAdd(a, b)

\* the multiplication panics in the build with overflow checks
UMulOverflows(k, a, b) == k = "poly" /\ PolyMulOverflows(a, b)

\* T * X of substitude
CoefTimes(k, r, coef, x) ==
    CASE k = "t" -> TMul(r, coef, x)
      [] k = "mat" -> MatScale(x, coef)

\* an X * T that forgets the coefficient
TimesCoefDropped(k, r, x, coef) == x

\* X * T of rsubstitude
TimesCoef(k, r, x, coef) ==
    CASE k = "t" -> TMul(r, x, coef)
      [] k = "mat" -> MatScale(x, coef)
      [] k = "poly" -> PolyMulScalar(r, x, coef)

(***************************************************************************)
(* Powered::substitude: value to the power of self.power by repeated       *)
(* squaring.  The result is [panic, val].                                  *)
(***************************************************************************)
\* one pass of the while loop over the locals [ans, to_mul, pow]
RECURSIVE SubstLoop(_, _, _, _)
SubstLoop(k, r, chk, loc) ==
    IF U32IsZero(loc.pow) THEN [panic |-> FALSE, val |-> loc.ans]
    ELSE IF chk /\ U32Odd(loc.pow) /\ UMulOverflows(k, loc.ans, loc.to_mul)
    THEN [panic |-> TRUE, val |-> loc.ans]
    ELSE IF chk /\ UMulOverflows(k, loc.to_mul, loc.to_mul)
    THEN [panic |-> TRUE, val |-> loc.ans]
    ELSE SubstLoop(k, r, chk,
                   [ans |-> IF U32Odd(loc.pow)
                            THEN UMul(k, r, loc.ans, loc.to_mul) ELSE loc.ans,
                    to_mul |-> UMul(k, r, loc.to_mul, loc.to_mul),
                    pow |-> U32Shr1(loc.pow)])

\* a power whose accumulator starts at the value, not at one
PoweredSubstitudeFromValue(k, r, chk, power, value) ==
    SubstLoop(k, r, chk, [ans |-> value, to_mul |-> value, pow |-> power])

PoweredSubstitude(k, r, chk, power, value) ==
    IF U32IsZero(power) THEN [panic |-> FALSE, val |-> UOne(k, r)]
    ELSE SubstLoop(k, r, chk, [ans |-> UOne(k, r), to_mul |-> value, pow |-> power])

\* no call of Powered::substitude under way
LoopIdle ==
    [pc |-> "idle", power |-> U32(0, 0), value |-> 0, ans |-> 0, to_mul |-> 0,
     pow |-> U32(0, 0), iters |-> 0, squarings |-> 0, mults |-> 0]

\* a loop that stops one bit early: while pow > 1
LoopRunsAboveOne(pow) == U32Lt(U32(0, 1), pow)

\* while pow > 0
LoopRuns(pow) == ~U32IsZero(pow)

\* Polynomial::pow
PolyPow(r, chk, members, power) == PoweredSubstitude("poly", r, chk, power, members)

(***************************************************************************)
(* Polynomial::substitude and rsubstitude: the fold over members.          *)
(***************************************************************************)
RECURSIVE SubstFold(_, _, _, _, _, _, _)
SubstFold(k, r, chk, members, point, i, ans) ==
    IF i > Len(members) THEN [panic |-> FALSE, val |-> ans]
    ELSE LET rhs == PoweredSubstitude(k, r, chk, members[i].power, point)
         IN  IF rhs.panic THEN [panic |-> TRUE, val |-> ans]
             ELSE SubstFold(k, r, chk, members, point, i + 1,
                            UAdd(k, r, ans, CoefTimes(k, r, members[i].coef, rhs.val)))

\* a substitution whose accumulator starts at one, not at zero
SubstitudeFromOne(k, r, chk, members, point) ==
    SubstFold(k, r, chk, members, point, 1, UOne(k, r))

Substitude(k, r, chk, members, point) ==
    SubstFold(k, r, chk, members, point, 1, UZero(k, r))

RECURSIVE RSubstFold(_, _, _, _, _, _, _)
RSubstFold(k, r, chk, members, value, i, ans) ==
    IF i > Len(members) THEN [panic |-> FALSE, val |-> ans]
    ELSE LET rhs == PoweredSubstitude(k, r, chk, members[i].power, value)
         IN  IF rhs.panic THEN [panic |-> TRUE, val |-> ans]
             ELSE RSubstFold(k, r, chk, members, value, i + 1,
                             UAdd(k, r, ans, TimesCoef(k, r, rhs.val, members[i].coef)))

RSubstitude(k, r, chk, members, value) ==
    RSubstFold(k, r, chk, members, value, 1, UZero(k, r))

(***************************************************************************)
(* The pools the arguments are drawn from.                                 *)
(***************************************************************************)
Rings == {"i32", "zn"}

\* coefficient and point values of the ring
Values(r) == IF r = "zn" THEN 0..(ZnN - 1) ELSE {-1, 0, 1}

\* exponents: 0, 1 and 2^31, whose double overflows u32
Exps == {U32(0, 0), U32(0, 1), U32(Half \div 2, 0)}

TermPool(r) == [coef : Values(r), power : Exps]

\* polynomial arguments: every term list of at most n terms
PolysUpTo(r, n) == UNION {[1..k -> TermPool(r)] : k \in 0..n}

\* square matrices whose powers stay within {0, 1}: zero, identity, the
\* nilpotent unit, the swap (which does not commute with it), a projection
\* the coefficient lists of up to n entries
CoefLists(r, n) == UNION {[1..k -> Values(r)] : k \in 0..n}

MatPool ==
    {<<0, 0, 0, 0>>, <<1, 0, 0, 1>>, <<0, 0, 1, 0>>, <<0, 1, 1, 0>>, <<1, 0, 0, 0>>}

NoArgP == <<>>
NoArgV == <<>>
NoArgN == U32(0, 0)
NoRes == <<>>

(***************************************************************************)
(* The state machine.                                                      *)
(***************************************************************************)
\* the host holds any term list: members has no invariant before reduce
Init ==
    /\ ring \in Rings
    /\ p \in PolysUpTo(ring, MaxLen)
    /\ op = "init"
    /\ recv = PolyNew
    /\ argp = NoArgP
    /\ argv = NoArgV
    /\ argn = NoArgN
    /\ res = NoRes
    /\ panicked = FALSE
    /\ steps = 0
    /\ kind = "t"
    /\ zn = [n |-> U32(0, ZnN), v |-> U32(0, 0)]
    /\ mat = Matrix(Dim, Dim, MatZero(Dim, Dim))
    /\ loop = LoopIdle

\* the first operation takes any arguments, the ones after it take none
First == ~panicked /\ steps = 0

Later == ~panicked /\ steps < MaxSteps

\* a consuming operator returned `value`
Returns(name, value, q, v, n) ==
    /\ p' = value
    /\ op' = name
    /\ recv' = p
    /\ argp' = q
    /\ argv' = v
    /\ argn' = n
    /\ res' = NoRes
    /\ panicked' = FALSE
    /\ steps' = steps + 1
    /\ kind' = "t"
    /\ UNCHANGED <<ring, zn, mat, loop>>

\* a borrowing operation returned `value`; k is the type of its point
Answers(name, value, k, v, n) ==
    /\ p' = p
    /\ op' = name
    /\ recv' = p
    /\ argp' = NoArgP
    /\ argv' = v
    /\ argn' = n
    /\ res' = <<value>>
    /\ panicked' = FALSE
    /\ steps' = steps + 1
    /\ kind' = k
    /\ UNCHANGED <<ring, zn, mat, loop>>

\* the operation panicked: the receiver is lost with the run
Panics(name, q, v, n) ==
    /\ p' = PolyNew
    /\ op' = name
    /\ recv' = p
    /\ argp' = q
    /\ argv' = v
    /\ argn' = n
    /\ res' = NoRes
    /\ panicked' = TRUE
    /\ steps' = steps + 1
    /\ kind' = "t"
    /\ UNCHANGED <<ring, zn, mat, loop>>

\* p + q
AddPoly ==
    /\ First
    /\ \E q \in PolysUpTo(ring, MaxLen) :
          /\ Len(p) + Len(q) <= MaxTerms
          /\ Returns("add", PolyAdd(p, q), q, NoArgV, NoArgN)

\* p + v
AddConst ==
    /\ First
    /\ \E v \in Values(ring) :
          Returns("add_const", PolyAddConst(p, v), NoArgP, <<v>>, NoArgN)

\* -p
NegPoly ==
    /\ First /\ ring = "i32"
    /\ Returns("neg", PolyNeg(ring, p), NoArgP, NoArgV, NoArgN)

\* p - q
SubPoly ==
    /\ First /\ ring = "i32"
    /\ \E q \in PolysUpTo(ring, MaxLen) :
          /\ Len(p) + Len(q) <= MaxTerms
          /\ Returns("sub", PolySub(ring, p, q), q, NoArgV, NoArgN)

\* p - v
SubConst ==
    /\ First /\ ring = "i32"
    /\ \E v \in Values(ring) :
          Returns("sub_const", PolySubConst(ring, p, v), NoArgP, <<v>>, NoArgN)

\* p * v
MulScalar ==
    /\ First
    /\ \E v \in Values(ring) :
          Returns("mul_scalar", PolyMulScalar(ring, p, v), NoArgP, <<v>>, NoArgN)

\* p * q
MulPoly ==
    /\ First
    /\ \E q \in PolysUpTo(ring, MaxLen) :
          /\ Len(p) * Len(q) <= MaxMulLen
          /\ \/ Returns("mul", PolyMul(ring, p, q), q, NoArgV, NoArgN)
             \/ /\ PolyMulOverflows(p, q)
                /\ Panics("mul", q, NoArgV, NoArgN)

\* p.pow(n)
PowPoly ==
    /\ First /\ Len(p) * Len(p) <= MaxMulLen
    /\ \E n \in 0..MaxPow, chk \in BOOLEAN :
          LET out == PolyPow(ring, chk, p, U32OfNat(n))
          IN  IF out.panic
              THEN Panics("pow", NoArgP, NoArgV, U32OfNat(n))
              ELSE Returns("pow", out.val, NoArgP, NoArgV, U32OfNat(n))

\* Polynomial::from_coefs(coefs), replacing the empty polynomial
FromCoefsList ==
    /\ First /\ p = PolyNew
    /\ \E coefs \in CoefLists(ring, MaxCoefs) :
          Returns("from_coefs", FromCoefs(ring, coefs), NoArgP, coefs, NoArgN)

\* Polynomial::zero(), replacing the empty polynomial
ZeroPoly ==
    /\ First /\ p = PolyNew
    /\ Returns("zero", PolyZero(ring), NoArgP, NoArgV, NoArgN)

\* Polynomial::one(), replacing the empty polynomial
OnePoly ==
    /\ First /\ p = PolyNew
    /\ Returns("one", PolyOne(ring), NoArgP, NoArgV, NoArgN)

\* p.is_zero()
IsZeroPoly ==
    /\ First
    /\ IF PolyIsZero(ring, p).panic
       THEN Panics("is_zero", NoArgP, NoArgV, NoArgN)
       ELSE Answers("is_zero", PolyIsZero(ring, p).val, "t", NoArgV, NoArgN)

\* p.is_one()
IsOnePoly ==
    /\ First
    /\ IF PolyIsOne(ring, p).panic
       THEN Panics("is_one", NoArgP, NoArgV, NoArgN)
       ELSE Answers("is_one", PolyIsOne(ring, p).val, "t", NoArgV, NoArgN)

\* p.rsubstitude(q), q a polynomial in another variable.  A power above 1
\* is taken of a q of at most one term only: the squarings of a longer q
\* grow past every bound.
RSubstPoly ==
    /\ First
    /\ \E q \in PolysUpTo(ring, MaxLen), chk \in BOOLEAN :
          /\ Len(p) * Len(q) <= MaxMulLen
          /\ Len(q) > 1 => \A i \in 1..Len(p) : ~U32Lt(U32(0, 1), p[i].power)
          /\ LET out == RSubstitude("poly", ring, chk, p, q)
             IN  IF out.panic
                 THEN Panics("rsubstitude_poly", NoArgP, <<q>>, NoArgN)
                 ELSE Answers("rsubstitude_poly", out.val, "poly", <<q>>, NoArgN)

\* p.reduce()
ReducePoly ==
    /\ Later
    /\ Returns("reduce", Reduce(ring, p), NoArgP, NoArgV, NoArgN)

\* p.get(index)
GetCoef ==
    /\ First
    /\ \E index \in Exps :
          Answers("get", PolyGet(p, index), "t", NoArgV, index)

\* p.len()
LenPoly ==
    /\ First
    /\ Answers("len", PolyLen(p), "t", NoArgV, NoArgN)

\* p.substitude(v), v of the coefficient type
SubstValue ==
    /\ First
    /\ \E v \in Values(ring) :
          Answers("substitude", Substitude("t", ring, FALSE, p, v).val,
                  "t", <<v>>, NoArgN)

\* p.rsubstitude(v), v of the coefficient type
RSubstValue ==
    /\ First
    /\ \E v \in Values(ring) :
          Answers("rsubstitude", RSubstitude("t", ring, FALSE, p, v).val,
                  "t", <<v>>, NoArgN)

\* p.substitude(m), m a Matrix<Dim, Dim, i32>
SubstMatrix ==
    /\ First /\ ring = "i32"
    /\ \E m \in MatPool :
          Answers("substitude_matrix", Substitude("mat", ring, FALSE, p, m).val,
                  "mat", <<m>>, NoArgN)

Next ==
    \/ AddPoly
    \/ AddConst
    \/ NegPoly
    \/ SubPoly
    \/ SubConst
    \/ MulScalar
    \/ MulPoly
    \/ PowPoly
    \/ ReducePoly
    \/ FromCoefsList
    \/ ZeroPoly
    \/ OnePoly
    \/ IsZeroPoly
    \/ IsOnePoly
    \/ GetCoef
    \/ LenPoly
    \/ SubstValue
    \/ RSubstValue
    \/ SubstMatrix
    \/ RSubstPoly

Spec == Init /\ [][Next]_vars

(***************************************************************************)
(* The term power on its own: the host holds the monomial x^e of X::pow    *)
(* and a point is substituted into its Powered.                            *)
(***************************************************************************)
\* largest exponent whose power is also computed as a plain e-fold product
MaxExp == 7

\* exponents beyond it: 2^16 - 1, 2^16, 2 000 000 000, 2^31, 2^32 - 1
BigExps ==
    {U32(0, Half - 1), U32(1, 0), U32(30517, 37888), U32(Half \div 2, 0),
     U32(Half - 1, Half - 1)}

PowExps == {U32OfNat(e) : e \in 0..MaxExp} \cup BigExps

\* the matrix [[1, 1], [0, 1]], whose n-th power holds n
Shear == <<1, 1, 0, 1>>

\* points whose powers stay small for every exponent, and those that grow
Points(r, k, power) ==
    IF k = "mat" THEN MatPool \cup (IF power \in BigExps THEN {} ELSE {Shear})
    ELSE Values(r) \cup (IF r = "zn" \/ power \in BigExps THEN {} ELSE {2})

InitPowered ==
    /\ ring \in Rings
    /\ p \in {XPow(ring, e) : e \in PowExps}
    /\ op = "init"
    /\ recv = PolyNew
    /\ argp = NoArgP
    /\ argv = NoArgV
    /\ argn = NoArgN
    /\ res = NoRes
    /\ panicked = FALSE
    /\ steps = 0
    /\ kind = "t"
    /\ zn = [n |-> U32(0, ZnN), v |-> U32(0, 0)]
    /\ mat = Matrix(Dim, Dim, MatZero(Dim, Dim))
    /\ loop = LoopIdle

\* var.substitude(point) for a member (coef, var) of p
TermPower ==
    /\ First
    /\ \E i \in 1..Len(p), k \in {"t", "mat"} :
          /\ k = "mat" => ring = "i32"
          /\ \E v \in Points(ring, k, p[i].power) :
                Answers("powered", PoweredSubstitude(k, ring, FALSE, p[i].power, v).val,
                        k, <<v>>, p[i].power)

NextPowered == TermPower

SpecPowered == InitPowered /\ [][NextPowered]_vars


(***************************************************************************)
(* Zn<N> on its own, for moduli over the whole of u32.                     *)
(***************************************************************************)
MaxZnSteps == 2

\* 0, 1, 3, 5, 100, 2^16 + 1, 2^31 + 1, 2^32 - 1
Moduli ==
    {U32(0, 0), U32(0, 1), U32(0, 3), U32(0, 5), U32(0, 100), U32(1, 1),
     U32(Half \div 2, 1), U32(Half - 1, Half - 1)}

\* the arguments of new: 0, 1, 2, 4, 32, 99, 131, 2^16, 2^32 - 2, 2^32 - 1
Raws ==
    {U32(0, 0), U32(0, 1), U32(0, 2), U32(0, 4), U32(0, 32), U32(0, 99),
     U32(0, 131), U32(1, 0), U32(Half - 1, Half - 2), U32(Half - 1, Half - 1)}

\* the stored values of the Zn<N> a program can build as an operand
ZnOperands(n) ==
    {U32(0, 0)} \cup (IF U32IsZero(n) THEN {} ELSE {ZnNewN(n, x).val : x \in Raws})

InitZn ==
    /\ ring = "zn"
    /\ p = PolyNew
    /\ op = "init"
    /\ recv = PolyNew
    /\ argp = NoArgP
    /\ argv = NoArgV
    /\ argn = NoArgN
    /\ res = NoRes
    /\ panicked = FALSE
    /\ steps = 0
    /\ kind = "t"
    /\ zn \in {[n |-> n, v |-> U32(0, 0)] : n \in Moduli}
    /\ mat = Matrix(Dim, Dim, MatZero(Dim, Dim))
    /\ loop = LoopIdle

\* an operation of Zn<N> that returned out, or panicked, on the arguments args
ZnStep(name, out, args) ==
    /\ op' = name
    /\ argv' = args
    /\ panicked' = out.panic
    /\ zn' = IF out.panic THEN zn ELSE [zn EXCEPT !.v = out.val]
    /\ steps' = steps + 1
    /\ res' = NoRes
    /\ UNCHANGED <<ring, p, recv, argp, argn, kind, mat, loop>>

\* Zn::<N>::new(x)
ZnNewOp ==
    /\ ~panicked /\ steps < MaxZnSteps
    /\ \E x \in Raws : ZnStep("new", ZnNewN(zn.n, x), <<x>>)

\* Zn::<N>::default(): the derived Default of the u32 field, 0
ZnDefaultOp ==
    /\ ~panicked /\ steps < MaxZnSteps
    /\ ZnStep("default", [panic |-> FALSE, val |-> U32(0, 0)], NoArgV)

\* Zn::<N>::zero()
ZnZeroOp ==
    /\ ~panicked /\ steps < MaxZnSteps
    /\ ZnStep("zero", ZnZeroN(zn.n), NoArgV)

\* Zn::<N>::one()
ZnOneOp ==
    /\ ~panicked /\ steps < MaxZnSteps
    /\ ZnStep("one", ZnOneN(zn.n), NoArgV)

\* a + b
ZnAddOp ==
    /\ ~panicked /\ steps < MaxZnSteps
    /\ \E b \in ZnOperands(zn.n), chk \in BOOLEAN :
          ZnStep("add", ZnAddN(zn.n, chk, zn.v, b), <<zn.v, b>>)

\* a += b
ZnAddAssignOp ==
    /\ ~panicked /\ steps < MaxZnSteps
    /\ \E b \in ZnOperands(zn.n), chk \in BOOLEAN :
          ZnStep("add_assign", ZnAddN(zn.n, chk, zn.v, b), <<zn.v, b>>)

\* a - b
ZnSubOp ==
    /\ ~panicked /\ steps < MaxZnSteps
    /\ \E b \in ZnOperands(zn.n), chk \in BOOLEAN :
          ZnStep("sub", ZnSubN(zn.n, chk, zn.v, b), <<zn.v, b>>)

\* a -= b
ZnSubAssignOp ==
    /\ ~panicked /\ steps < MaxZnSteps
    /\ \E b \in ZnOperands(zn.n), chk \in BOOLEAN :
          ZnStep("sub_assign", ZnSubN(zn.n, chk, zn.v, b), <<zn.v, b>>)

\* a * b
ZnMulOp ==
    /\ ~panicked /\ steps < MaxZnSteps
    /\ \E b \in ZnOperands(zn.n), chk \in BOOLEAN :
          ZnStep("mul", ZnMulN(zn.n, chk, zn.v, b), <<zn.v, b>>)

\* a *= b
ZnMulAssignOp ==
    /\ ~panicked /\ steps < MaxZnSteps
    /\ \E b \in ZnOperands(zn.n), chk \in BOOLEAN :
          ZnStep("mul_assign", ZnMulN(zn.n, chk, zn.v, b), <<zn.v, b>>)

\* a.is_zero()
ZnIsZeroOp ==
    /\ ~panicked /\ steps < MaxZnSteps
    /\ op' = "is_zero"
    /\ argv' = NoArgV
    /\ res' = <<ZnIsZeroN(zn.v)>>
    /\ steps' = steps + 1
    /\ UNCHANGED <<ring, p, recv, argp, argn, kind, panicked, zn, mat, loop>>

\* a.is_one()
ZnIsOneOp ==
    /\ ~panicked /\ steps < MaxZnSteps
    /\ op' = "is_one"
    /\ argv' = NoArgV
    /\ res' = <<ZnIsOneN(zn.v)>>
    /\ steps' = steps + 1
    /\ UNCHANGED <<ring, p, recv, argp, argn, kind, panicked, zn, mat, loop>>

NextZn ==
    \/ ZnNewOp
    \/ ZnDefaultOp
    \/ ZnZeroOp
    \/ ZnOneOp
    \/ ZnAddOp
    \/ ZnAddAssignOp
    \/ ZnSubOp
    \/ ZnSubAssignOp
    \/ ZnMulOp
    \/ ZnMulAssignOp
    \/ ZnIsZeroOp
    \/ ZnIsOneOp

SpecZn == InitZn /\ [][NextZn]_vars


(***************************************************************************)
(* Matrix<N, M, i32> on its own (custom_types/matrix.rs).  A panic is      *)
(* caught by the caller, as the tests do with catch_unwind: panicked says  *)
(* whether the last operation panicked, and the matrix is used further.    *)
(***************************************************************************)
MaxMatSteps == 2
MaxData == 5
MaxIdx == 2

\* the shapes <N, M> of the tests: 1 x 2, 2 x 1 and 2 x 2
Shapes == {<<1, 2>>, <<2, 1>>, <<2, 2>>}

\* the lists 1, 2, .., k and k, .., 2, 1
DataLists ==
    {[i \in 1..k |-> i] : k \in 0..MaxData} \cup {[i \in 1..k |-> k + 1 - i] : k \in 2..MaxData}

\* the Matrix<n, m, i32> a program builds as an operand
MatOperands(n, m) ==
    {Matrix(n, m, MatFull(n, m, 1)), Matrix(n, m, MatEye(n, m, 2)),
     Matrix(n, m, [i \in 1..(n * m) |-> i])}

InitMatrix ==
    /\ ring = "i32"
    /\ p = PolyNew
    /\ op = "init"
    /\ recv = PolyNew
    /\ argp = NoArgP
    /\ argv = NoArgV
    /\ argn = NoArgN
    /\ res = NoRes
    /\ panicked = FALSE
    /\ steps = 0
    /\ kind = "mat"
    /\ zn = [n |-> U32(0, ZnN), v |-> U32(0, 0)]
    /\ mat \in {Matrix(s[1], s[2], MatZero(s[1], s[2])) : s \in Shapes}
    /\ loop = LoopIdle

\* an operation that returned the matrix Matrix(out.val.n, out.val.m,
\* out.val.data), or panicked and left the matrix it was applied to as it was
MatStep(name, out, args) ==
    /\ op' = name
    /\ recv' = mat
    /\ argv' = args
    /\ res' = NoRes
    /\ panicked' = out.panic
    /\ mat' = IF out.panic THEN mat ELSE out.val
    /\ steps' = steps + 1
    /\ UNCHANGED <<ring, p, argp, argn, kind, zn, loop>>

\* Matrix::full(value)
MatFullOp ==
    /\ steps < MaxMatSteps
    /\ \E value \in Values("i32") :
          MatStep("full", [panic |-> FALSE, val |-> Matrix(mat.n, mat.m, MatFull(mat.n, mat.m, value))], <<value>>)

\* Matrix::eye(value)
MatEyeOp ==
    /\ steps < MaxMatSteps
    /\ \E value \in Values("i32") :
          MatStep("eye", [panic |-> FALSE, val |-> Matrix(mat.n, mat.m, MatEye(mat.n, mat.m, value))], <<value>>)

\* Matrix::from_data(data)
MatFromDataOp ==
    /\ steps < MaxMatSteps
    /\ \E data \in DataLists :
          MatStep("from_data", MatrixFromData(mat.n, mat.m, data), <<data>>)

\* m.set_data(data)
MatSetDataOp ==
    /\ steps < MaxMatSteps
    /\ \E data \in DataLists : MatStep("set_data", MatrixSetData(mat, data), <<data>>)

\* m[(i, j)]
MatIndexOp ==
    /\ steps < MaxMatSteps
    /\ \E i \in 0..MaxIdx, j \in 0..MaxIdx :
          LET out == MatrixIndex(mat, i, j)
          IN  /\ op' = "index"
              /\ recv' = mat
              /\ argv' = <<i, j>>
              /\ res' = IF out.panic THEN NoRes ELSE <<out.val>>
              /\ panicked' = out.panic
              /\ steps' = steps + 1
              /\ UNCHANGED <<ring, p, argp, argn, kind, zn, mat, loop>>

\* m[(i, j)] = value
MatIndexMutOp ==
    /\ steps < MaxMatSteps
    /\ \E i \in 0..MaxIdx, j \in 0..MaxIdx, value \in Values("i32") :
          MatStep("index_mut", MatrixIndexMut(mat, i, j, value), <<i, j, value>>)

\* a + b
MatAddOp ==
    /\ steps < MaxMatSteps
    /\ \E b \in MatOperands(mat.n, mat.m) :
          MatStep("add", [panic |-> FALSE, val |-> Matrix(mat.n, mat.m, MatAdd(mat.data, b.data))], <<b>>)

\* a += b
MatAddAssignOp ==
    /\ steps < MaxMatSteps
    /\ \E b \in MatOperands(mat.n, mat.m) :
          MatStep("add_assign", [panic |-> FALSE, val |-> [mat EXCEPT !.data = MatAdd(mat.data, b.data)]], <<b>>)

\* -a
MatNegOp ==
    /\ steps < MaxMatSteps
    /\ MatStep("neg", [panic |-> FALSE, val |-> Matrix(mat.n, mat.m, MatNeg(mat.data))], NoArgV)

\* a - b
MatSubOp ==
    /\ steps < MaxMatSteps
    /\ \E b \in MatOperands(mat.n, mat.m) :
          MatStep("sub", [panic |-> FALSE, val |-> Matrix(mat.n, mat.m, MatSub(mat.data, b.data))], <<b>>)

\* a -= b
MatSubAssignOp ==
    /\ steps < MaxMatSteps
    /\ \E b \in MatOperands(mat.n, mat.m) :
          MatStep("sub_assign", [panic |-> FALSE, val |-> [mat EXCEPT !.data = MatSub(mat.data, b.data)]], <<b>>)

\* a * b for a: Matrix<N, K>, b: Matrix<K, M>
MatMulOp ==
    /\ steps < MaxMatSteps
    /\ \E s \in Shapes :
          /\ s[1] = mat.m
          /\ \E b \in MatOperands(s[1], s[2]) :
                MatStep("mul", [panic |-> FALSE, val |-> MatrixMul(mat, b)], <<b>>)

\* a *= b on square matrices: self.data = (self.clone() * rhs).data
MatMulAssignOp ==
    /\ steps < MaxMatSteps
    /\ mat.n = mat.m
    /\ \E b \in MatOperands(mat.n, mat.m) :
          MatStep("mul_assign", [panic |-> FALSE, val |-> [mat EXCEPT !.data = MatrixMul(mat, b).data]], <<b>>)

\* a * s
MatScaleOp ==
    /\ steps < MaxMatSteps
    /\ \E s \in Values("i32") :
          MatStep("scale", [panic |-> FALSE, val |-> Matrix(mat.n, mat.m, MatScale(mat.data, s))], <<s>>)

\* a *= s
MatScaleAssignOp ==
    /\ steps < MaxMatSteps
    /\ \E s \in Values("i32") :
          MatStep("scale_assign", [panic |-> FALSE, val |-> [mat EXCEPT !.data = MatScale(mat.data, s)]], <<s>>)

\* s * a for an i32 s
MatScaledByOp ==
    /\ steps < MaxMatSteps
    /\ \E s \in Values("i32") :
          MatStep("scaled_by", [panic |-> FALSE, val |-> Matrix(mat.n, mat.m, MatScale(mat.data, s))], <<s>>)

NextMatrix ==
    \/ MatFullOp
    \/ MatEyeOp
    \/ MatFromDataOp
    \/ MatSetDataOp
    \/ MatIndexOp
    \/ MatIndexMutOp
    \/ MatAddOp
    \/ MatAddAssignOp
    \/ MatNegOp
    \/ MatSubOp
    \/ MatSubAssignOp
    \/ MatMulOp
    \/ MatMulAssignOp
    \/ MatScaleOp
    \/ MatScaleAssignOp
    \/ MatScaledByOp

SpecMatrix == InitMatrix /\ [][NextMatrix]_vars


(***************************************************************************)
(* One call of Powered::substitude, a pass of its loop at a time, on a     *)
(* value of Zn<ZnN>, whose products do not overflow.                       *)
(***************************************************************************)
\* 0, 1, 2, 3, 5, 6, 255, 1337, 1321654, 2000000000, 2^31, 2^32 - 1
LoopExps ==
    {U32OfNat(n) : n \in {0, 1, 2, 3, 5, 6, 255, 1337, 1321654, 2000000000}}
        \cup {U32(Half \div 2, 0), U32(Half - 1, Half - 1)}

InitLoop ==
    /\ ring = "zn"
    /\ p = PolyNew
    /\ op = "init"
    /\ recv = PolyNew
    /\ argp = NoArgP
    /\ argv = NoArgV
    /\ argn = NoArgN
    /\ res = NoRes
    /\ panicked = FALSE
    /\ steps = 0
    /\ kind = "t"
    /\ zn = [n |-> U32(0, ZnN), v |-> U32(0, 0)]
    /\ mat = Matrix(Dim, Dim, MatZero(Dim, Dim))
    /\ loop \in {[LoopIdle EXCEPT !.pc = "called", !.power = e, !.value = v] :
                    e \in LoopExps, v \in Values("zn")}

\* if self.power == 0 { return U::one() }, else the locals are set up
LoopEnter ==
    /\ loop.pc = "called"
    /\ IF U32IsZero(loop.power)
       THEN /\ loop' = [loop EXCEPT !.pc = "returned"]
            /\ res' = <<UOne(kind, ring)>>
       ELSE /\ loop' = [loop EXCEPT !.pc = "while", !.ans = UOne(kind, ring),
                                    !.to_mul = loop.value, !.pow = loop.power]
            /\ res' = res
    /\ op' = "powered"
    /\ UNCHANGED <<ring, p, recv, argp, argv, argn, panicked, steps, kind, zn, mat>>

\* one pass of the body of the while loop
LoopPass ==
    /\ loop.pc = "while"
    /\ LoopRuns(loop.pow)
    /\ loop' = [loop EXCEPT
                  !.ans = IF U32Odd(loop.pow)
                          THEN UMul(kind, ring, loop.ans, loop.to_mul) ELSE loop.ans,
                  !.mults = IF U32Odd(loop.pow) THEN loop.mults + 1 ELSE loop.mults,
                  !.to_mul = UMul(kind, ring, loop.to_mul, loop.to_mul),
                  !.squarings = loop.squarings + 1,
                  !.pow = U32Shr1(loop.pow),
                  !.iters = loop.iters + 1]
    /\ UNCHANGED <<ring, p, op, recv, argp, argv, argn, res, panicked, steps, kind, zn, mat>>

\* the loop is left and ans returned
LoopExit ==
    /\ loop.pc = "while"
    /\ ~LoopRuns(loop.pow)
    /\ loop' = [loop EXCEPT !.pc = "returned"]
    /\ res' = <<loop.ans>>
    /\ UNCHANGED <<ring, p, op, recv, argp, argv, argn, panicked, steps, kind, zn, mat>>

NextLoop ==
    \/ LoopEnter
    \/ LoopPass
    \/ LoopExit

\* the call runs on: nothing else is scheduled
SpecLoop == InitLoop /\ [][NextLoop]_vars /\ WF_vars(NextLoop)


(***************************************************************************)
(* Properties of reduce, the operators and the products.                   *)
(***************************************************************************)
\* the sum over the integers of the coefficients of the terms of m at e
RECURSIVE IntSumAt(_, _, _)
IntSumAt(m, e, i) ==
    IF i > Len(m) THEN 0
    ELSE (IF m[i].power = e THEN m[i].coef ELSE 0) + IntSumAt(m, e, i + 1)

\* the same sum in the coefficient ring
RingSumAt(r, m, e) == IF r = "zn" THEN IntSumAt(m, e, 1) % ZnN ELSE IntSumAt(m, e, 1)

\* the product of two coefficients in the coefficient ring
RingProd(r, c, d) == IF r = "zn" THEN (c * d) % ZnN ELSE c * d

PowersOf(m) == {m[i].power : i \in 1..Len(m)}

Increasing(m) == \A i, j \in 1..Len(m) : i < j => U32Lt(m[i].power, m[j].power)

\* C1: the list reduce returns has at most one term per exponent, no term
\* with a zero coefficient, and strictly increasing exponents.
Thm_C1 ==
    op = "reduce" =>
        /\ \A i, j \in 1..Len(p) : p[i].power = p[j].power => i = j
        /\ \A i \in 1..Len(p) : p[i].coef # 0
        /\ Increasing(p)

\* reduce has acted on a list that repeats an exponent, is out of order and
\* whose terms at one exponent cancel
Wit_C1 ==
    /\ op = "reduce"
    /\ \E i, j \in 1..Len(recv) : i < j /\ recv[i].power = recv[j].power
    /\ \E i, j \in 1..Len(recv) : i < j /\ U32Lt(recv[j].power, recv[i].power)
    /\ \E e \in PowersOf(recv) : RingSumAt(ring, recv, e) = 0
    /\ Len(p) >= 2

\* 2x^2 + 1 - 1 - x^2 - x^2 + 1, built with the operators
SixTerms ==
    PolyAddConst(
        PolySub("i32",
            PolySub("i32",
                PolySubConst("i32",
                    PolyAddConst(PolyMulScalar("i32", XPow("i32", U32(0, 2)), 2), 1),
                    1),
                XPow("i32", U32(0, 2))),
            XPow("i32", U32(0, 2))),
        1)

\* C2: after reduce, get(e) is Some(the ring sum of the coefficients the
\* list held at e) when that sum is not zero and None otherwise; the six
\* terms of 2x^2 + 1 - 1 - x^2 - x^2 + 1 reduce to the single term 1.
Thm_C2 ==
    op = "reduce" =>
        /\ \A e \in Exps \cup PowersOf(recv) :
              PolyGet(p, e) = IF e \in PowersOf(recv) /\ RingSumAt(ring, recv, e) # 0
                              THEN <<RingSumAt(ring, recv, e)>>
                              ELSE <<>>
        /\ Len(SixTerms) = 6
        /\ Reduce("i32", SixTerms) = <<[coef |-> 1, power |-> U32(0, 0)]>>

\* reduce has merged two terms into a non-zero sum and cancelled two others
Wit_C2 ==
    /\ op = "reduce"
    /\ \E i, j \in 1..Len(recv) :
          /\ i < j
          /\ recv[i].power = recv[j].power
          /\ PolyGet(p, recv[i].power) = <<RingSumAt(ring, recv, recv[i].power)>>
    /\ \E i, j \in 1..Len(recv) :
          /\ i < j
          /\ recv[i].power = recv[j].power
          /\ recv[i].coef # 0
          /\ PolyGet(p, recv[i].power) = <<>>

\* C3: reducing the list reduce returned yields the same list.
Thm_C3 == op = "reduce" => Reduce(ring, p) = p

\* reduce has acted on a list of two or more terms that was in reduced
\* form already
Wit_C3 ==
    /\ op = "reduce"
    /\ steps >= 2
    /\ Len(recv) >= 2
    /\ Increasing(recv)
    /\ \A i \in 1..Len(recv) : recv[i].coef # 0
    /\ p = recv

\* C4: no operator merges or drops a term: + and - of polynomials give
\* len(a) + len(b) terms, + and - of a value give len(a) + 1 terms (also
\* for a zero or a cancelling value), negation and the product with a
\* value keep len(a); of these operations and reduce, only reduce shrinks
\* the list.
Thm_C4 ==
    /\ op \in {"add", "sub"} => Len(p) = Len(recv) + Len(argp)
    /\ op \in {"add_const", "sub_const"} => Len(p) = Len(recv) + 1
    /\ op \in {"neg", "mul_scalar"} => Len(p) = Len(recv)
    /\ op \in {"add", "sub", "add_const", "sub_const", "neg", "mul_scalar", "reduce"}
          /\ Len(p) < Len(recv) => op = "reduce"

\* a value was subtracted that cancels the constant term of a list that
\* also holds a zero coefficient
Wit_C4 ==
    /\ op = "sub_const"
    /\ \E i \in 1..Len(recv) : U32IsZero(recv[i].power) /\ recv[i].coef = argv[1]
    /\ \E i \in 1..Len(recv) : recv[i].coef = 0
    /\ argv[1] # 0
    /\ Len(p) = 3

\* the sum of two exponents, exact when it fits 32 bits
ExpSum(a, b) ==
    <<(a[1] + b[1] + ((a[2] + b[2]) \div Half)) % Half, (a[2] + b[2]) % Half>>

\* no exponent sum e_i + f_j of a term of a and a term of b passes 2^32 - 1
ExactSums(a, b) ==
    \A i \in 1..Len(a), j \in 1..Len(b) : ~U32AddOverflows(a[i].power, b[j].power)

\* C5: for every a and b the product a * b has exactly len(a) * len(b)
\* terms, and the term of the pair (i, j) is (c_i * d_j, e_i + f_j), the
\* left factor's coefficient on the left, the terms in row-major order
\* (i outer, j inner), no pairs merged.
CE_C5 ==
    op = "mul" =>
        /\ ~panicked
        /\ Len(p) = Len(recv) * Len(argp)
        /\ ExactSums(recv, argp)
        /\ \A i \in 1..Len(recv), j \in 1..Len(argp) :
              p[(i - 1) * Len(argp) + j] =
                  [coef |-> RingProd(ring, recv[i].coef, argp[j].coef),
                   power |-> ExpSum(recv[i].power, argp[j].power)]

(***************************************************************************)
(* Properties of the powers and the substitutions.  The references are     *)
(* written from the definitions of the ring operations, the 2 x 2 matrix   *)
(* product and the e-fold product, not from the loops above.               *)
(***************************************************************************)
RefOne(k, r) == IF k = "mat" THEN <<1, 0, 0, 1>> ELSE IF r = "zn" THEN 1 % ZnN ELSE 1

RefZero(k, r) == IF k = "mat" THEN <<0, 0, 0, 0>> ELSE 0

RefMul(k, r, a, b) ==
    IF k = "mat"
    THEN <<a[1] * b[1] + a[2] * b[3], a[1] * b[2] + a[2] * b[4],
           a[3] * b[1] + a[4] * b[3], a[3] * b[2] + a[4] * b[4]>>
    ELSE RingProd(r, a, b)

RefAdd(k, r, a, b) ==
    IF k = "mat" THEN <<a[1] + b[1], a[2] + b[2], a[3] + b[3], a[4] + b[4]>>
    ELSE IF r = "zn" THEN (a + b) % ZnN ELSE a + b

\* the coefficient times an element of the result ring
RefScale(k, r, c, x) ==
    IF k = "mat" THEN <<c * x[1], c * x[2], c * x[3], c * x[4]>>
    ELSE RingProd(r, c, x)

\* the n-fold product one * v * ... * v
RECURSIVE NaivePow(_, _, _, _)
NaivePow(k, r, v, n) ==
    IF n = 0 THEN RefOne(k, r) ELSE RefMul(k, r, NaivePow(k, r, v, n - 1), v)

\* the powers of v repeat: v^mu = v^(mu + lam) with mu, lam in 1..MaxCycle
MaxCycle == 3

Cycle(k, r, v) ==
    CHOOSE c \in (1..MaxCycle) \X (1..MaxCycle) :
        NaivePow(k, r, v, c[1]) = NaivePow(k, r, v, c[1] + c[2])

\* v^e: the e-fold product for e <= MaxExp, and for a larger e the
\* power mu + ((e - mu) mod lam) of the cycle
RefPower(k, r, v, e) ==
    IF e[1] = 0 /\ e[2] <= MaxExp THEN NaivePow(k, r, v, e[2])
    ELSE LET mu == Cycle(k, r, v)[1]
             lam == Cycle(k, r, v)[2]
         IN  NaivePow(k, r, v,
                      mu + (((e[1] % lam) * (Half % lam) + e[2] + lam * mu - mu) % lam))

\* C6: Powered::substitude returns value^power in a ring, commutative or
\* not; a zero power returns one whatever the value, so 0^0 = 1.
Thm_C6 ==
    op = "powered" =>
        /\ res = <<RefPower(kind, ring, argv[1], argn)>>
        /\ U32IsZero(argn) => res = <<RefOne(kind, ring)>>

\* the matrix [[1, 1], [0, 1]] was raised to the power MaxExp
Wit_C6 ==
    /\ op = "powered"
    /\ kind = "mat"
    /\ argv[1] = Shear
    /\ argn = U32(0, MaxExp)
    /\ res = <<<<1, MaxExp, 0, 1>>>>

\* the n-fold product p * ... * p, from one
RECURSIVE RepProd(_, _, _)
RepProd(r, m, n) == IF n = 0 THEN PolyOne(r) ELSE PolyMul(r, RepProd(r, m, n - 1), m)

\* an exponent sum of the n-fold product overflows
RECURSIVE RepProdOverflows(_, _, _)
RepProdOverflows(r, m, n) ==
    IF n = 0 THEN FALSE
    ELSE RepProdOverflows(r, m, n - 1) \/ PolyMulOverflows(RepProd(r, m, n - 1), m)

Nat32(u) == u[2]

\* C7: whenever the n-fold product of p exists, p.pow(n) returns and its
\* reduced list is the reduced list of that product; pow(0) reduces to
\* the constant one.
CE_C7 ==
    op = "pow" /\ ~RepProdOverflows(ring, recv, Nat32(argn)) =>
        /\ ~panicked
        /\ Reduce(ring, p) = Reduce(ring, RepProd(ring, recv, Nat32(argn)))
        /\ U32IsZero(argn) => Reduce(ring, p) = PolyOne(ring)

\* C8: substitude folds zero + c_1 * v^e_1 + ... in the result ring with
\* the coefficient on the left, for a point of the coefficient type or
\* a matrix; an empty list gives zero; a matrix M with M * M = 0 put into
\* x^e + x^1, e >= 2, gives M.
RECURSIVE RefEval(_, _, _, _, _)
RefEval(k, r, m, v, n) ==
    IF n = 0 THEN RefZero(k, r)
    ELSE RefAdd(k, r, RefEval(k, r, m, v, n - 1),
                RefScale(k, r, m[n].coef, RefPower(k, r, v, m[n].power)))

Thm_C8 ==
    op \in {"substitude", "substitude_matrix"} =>
        /\ res = <<RefEval(kind, ring, recv, argv[1], Len(recv))>>
        /\ recv = <<>> => res = <<RefZero(kind, ring)>>
        /\ (/\ kind = "mat"
            /\ RefMul(kind, ring, argv[1], argv[1]) = RefZero(kind, ring)
            /\ Len(recv) = 2
            /\ recv[1].coef = 1 /\ U32Lt(U32(0, 1), recv[1].power)
            /\ recv[2] = [coef |-> 1, power |-> U32(0, 1)])
           => res = argv

\* the nilpotent matrix was put into x^e + x^1 with e >= 2
Wit_C8 ==
    /\ op = "substitude_matrix"
    /\ argv = <<<<0, 0, 1, 0>>>>
    /\ Len(recv) = 2
    /\ recv[1].coef = 1 /\ U32Lt(U32(0, 1), recv[1].power)
    /\ recv[2] = [coef |-> 1, power |-> U32(0, 1)]
    /\ res = argv

\* C9: in a commutative ring a substitution, forward or reverse, gives
\* the value the substitution into the reduced list gives.
Thm_C9 ==
    /\ op = "substitude" =>
          res = <<Substitude(kind, ring, FALSE, Reduce(ring, recv), argv[1]).val>>
    /\ op = "rsubstitude" =>
          res = <<RSubstitude(kind, ring, FALSE, Reduce(ring, recv), argv[1]).val>>

\* a value was put into a list whose two terms reduce merges, with a
\* result that is not zero
Wit_C9 ==
    /\ op = "substitude"
    /\ Len(recv) = 2
    /\ recv[1].power = recv[2].power
    /\ Len(Reduce(ring, recv)) = 1
    /\ res # <<0>>

\* x^2 + 1
SquarePlusOne == PolyAddConst(XPow("i32", U32(0, 2)), 1)

\* C10: forward and reverse substitution agree when the coefficients
\* commute with the point: a point of the coefficient ring, or a matrix
\* scaled by the coefficient; x^2 + 1 at 4 is 17 both ways.
Thm_C10 ==
    /\ op \in {"substitude", "substitude_matrix"} =>
          /\ res = <<RSubstitude(kind, ring, FALSE, recv, argv[1]).val>>
          /\ Substitude("t", "i32", FALSE, SquarePlusOne, 4).val = 17
    /\ op = "rsubstitude" =>
          /\ res = <<Substitude(kind, ring, FALSE, recv, argv[1]).val>>
          /\ RSubstitude("t", "i32", FALSE, SquarePlusOne, 4).val = 17

\* the reverse substitution has acted on two terms whose coefficients
\* and point are neither zero nor one
Wit_C10 ==
    /\ op = "rsubstitude"
    /\ Len(recv) = 2
    /\ \A i \in 1..2 : recv[i].coef \notin {0, 1}
    /\ argv[1] \notin {0, 1}
    /\ res # <<0>>

(***************************************************************************)
(* Properties of the constructors, the identities and subtraction.         *)
(***************************************************************************)
\* C11: from_coefs(c) holds one term per non-zero entry of c: get(i) is
\* Some(c[i]) exactly when i < len(c) and c[i] is not zero, None
\* otherwise, and len is the number of non-zero entries; [3, 0, 1, 2]
\* gives 3, None, 1, 2 and [0, 0, 0] gives len 0.
Thm_C11 ==
    op = "from_coefs" =>
        /\ \A i \in 0..(Len(argv) + 1) :
              PolyGet(p, U32OfNat(i)) =
                  IF i < Len(argv) /\ argv[i + 1] # 0 THEN <<argv[i + 1]>> ELSE <<>>
        /\ \A e \in Exps : ~U32Lt(e, U32OfNat(Len(argv))) => PolyGet(p, e) = <<>>
        /\ PolyLen(p) = Cardinality({i \in 1..Len(argv) : argv[i] # 0})
        /\ LET c == FromCoefs("i32", <<3, 0, 1, 2>>)
           IN  /\ PolyGet(c, U32(0, 0)) = <<3>>
               /\ PolyGet(c, U32(0, 1)) = <<>>
               /\ PolyGet(c, U32(0, 2)) = <<1>>
               /\ PolyGet(c, U32(0, 3)) = <<2>>
               /\ PolyGet(c, U32(0, 4)) = <<>>
        /\ PolyLen(FromCoefs("i32", <<0, 0, 0>>)) = 0

\* from_coefs has acted on a list with zero entries before and between
\* its non-zero entries
Wit_C11 ==
    /\ op = "from_coefs"
    /\ Len(argv) = MaxCoefs
    /\ argv[1] = 0
    /\ argv[2] # 0
    /\ argv[3] = 0
    /\ argv[4] # 0
    /\ PolyLen(p) = 2

\* C12: adding Polynomial::zero() on either side does not change the
\* reduced list, and Polynomial::zero() reduces to the empty polynomial.
Thm_C12 ==
    /\ op = "add" /\ argp = PolyZero(ring) => Reduce(ring, p) = Reduce(ring, recv)
    /\ op = "add" /\ recv = PolyZero(ring) => Reduce(ring, p) = Reduce(ring, argp)
    /\ op = "reduce" /\ recv = PolyZero(ring) => p = PolyNew

\* zero() was added to two terms, none of them constant, so that the
\* sum holds a term reduce drops
Wit_C12 ==
    /\ op = "add"
    /\ argp = PolyZero(ring)
    /\ Len(recv) = 2
    /\ \A i \in 1..2 : ~U32IsZero(recv[i].power) /\ recv[i].coef # 0
    /\ recv[1].power # recv[2].power
    /\ Len(Reduce(ring, p)) = 2

\* C13: multiplying by Polynomial::one() on either side does not change
\* the reduced list.
Thm_C13 ==
    /\ op = "mul" /\ ~panicked /\ argp = PolyOne(ring) =>
          Reduce(ring, p) = Reduce(ring, recv)
    /\ op = "mul" /\ ~panicked /\ recv = PolyOne(ring) =>
          Reduce(ring, p) = Reduce(ring, argp)

\* one() was multiplied from the left with two terms that reduce merges
Wit_C13 ==
    /\ op = "mul"
    /\ ~panicked
    /\ recv = PolyOne(ring)
    /\ Len(argp) = 2
    /\ argp[1].power = argp[2].power
    /\ ~U32IsZero(argp[1].power)
    /\ Len(Reduce(ring, p)) = 1

\* C14: a - b is a's terms followed by b's terms with every coefficient
\* negated and the exponents kept, the list a + (-b) is; a - v is a's
\* terms followed by the constant term (-v, 0); so the reduced
\* difference holds a_e - b_e at every exponent e.
Thm_C14 ==
    /\ op = "sub" =>
          /\ Len(p) = Len(recv) + Len(argp)
          /\ \A i \in 1..Len(recv) : p[i] = recv[i]
          /\ \A j \in 1..Len(argp) :
                p[Len(recv) + j] = [coef |-> 0 - argp[j].coef, power |-> argp[j].power]
          /\ p = PolyAdd(recv, PolyNeg(ring, argp))
          /\ \A e \in Exps :
                PolyGet(Reduce(ring, p), e) =
                    IF IntSumAt(recv, e, 1) - IntSumAt(argp, e, 1) # 0
                    THEN <<IntSumAt(recv, e, 1) - IntSumAt(argp, e, 1)>>
                    ELSE <<>>
    /\ op = "sub_const" =>
          p = recv \o <<[coef |-> 0 - argv[1], power |-> U32(0, 0)]>>

\* two terms were subtracted from two terms: one exponent cancels,
\* another keeps a difference
Wit_C14 ==
    /\ op = "sub"
    /\ Len(recv) = 2
    /\ Len(argp) = 2
    /\ \A i \in 1..2 : recv[i].coef # 0 /\ argp[i].coef # 0
    /\ \E e \in PowersOf(recv) \cap PowersOf(argp) :
          PolyGet(Reduce(ring, p), e) = <<>>
    /\ \E e \in PowersOf(recv) \cap PowersOf(argp) :
          PolyGet(Reduce(ring, p), e) \notin {<<>>, <<1>>, <<-1>>}

(***************************************************************************)
(* Properties of the substitution of a polynomial and of the term order.   *)
(***************************************************************************)
\* q^e: the e-fold product for e <= 1, the monomial c^e * y^(e * f) for a
\* larger e and a q of one term (c, f), nothing for an empty q
RefPolyPow(r, q, e) ==
    IF ~U32Lt(U32(0, 1), e) THEN RepProd(r, q, e[2])
    ELSE IF q = <<>> THEN <<>>
    ELSE <<[coef |-> RefPower("t", r, q[1].coef, e),
            power |-> U32Mul(e, q[1].power).val]>>

RefScaleTerms(r, m, c) ==
    [i \in 1..Len(m) |-> [coef |-> RingProd(r, m[i].coef, c), power |-> m[i].power]]

\* the terms of c_1 * q^e_1 + ... + c_n * q^e_n
RECURSIVE RefCompose(_, _, _, _)
RefCompose(r, m, q, n) ==
    IF n = 0 THEN <<>>
    ELSE RefCompose(r, m, q, n - 1)
            \o RefScaleTerms(r, RefPolyPow(r, q, m[n].power), m[n].coef)

\* every exponent of the composition fits 32 bits
Composable(m, q) ==
    \A i \in 1..Len(m), j \in 1..Len(q) : ~U32Mul(m[i].power, q[j].power).ovf

\* C15: whenever the exponents of p(q(y)) fit 32 bits, p.rsubstitude(q)
\* returns a polynomial whose reduced list is the reduced list of the
\* composition, and whose value at every v is p at q(v); x + x^2 with
\* 1 + y^2 put in gives [2, 0, 3, 0, 1].
CE_C15 ==
    op = "rsubstitude_poly" /\ Composable(recv, argv[1]) =>
        /\ ~panicked
        /\ Reduce(ring, res[1]) = Reduce(ring, RefCompose(ring, recv, argv[1], Len(recv)))
        /\ \A v \in Values(ring) :
              Substitude("t", ring, FALSE, res[1], v).val =
                  Substitude("t", ring, FALSE, recv,
                             Substitude("t", ring, FALSE, argv[1], v).val).val
        /\ Reduce("i32", RSubstitude("poly", "i32", TRUE,
                                     FromCoefs("i32", <<0, 1, 1>>),
                                     FromCoefs("i32", <<1, 0, 1>>)).val)
              = FromCoefs("i32", <<2, 0, 3, 0, 1>>)

\* m with its terms i and i + 1 exchanged; these exchanges generate every
\* permutation of m
SwapNext(m, i) ==
    [k \in 1..Len(m) |-> IF k = i THEN m[i + 1] ELSE IF k = i + 1 THEN m[i] ELSE m[k]]

Neighbours(m) == {SwapNext(m, i) : i \in 1..(Len(m) - 1)}

\* what len, the substitutions and reduce returned is what they return
\* on the list with two neighbouring terms exchanged
OrderFree ==
    /\ op = "len" => \A q \in Neighbours(recv) : res = <<PolyLen(q)>>
    /\ op \in {"substitude", "substitude_matrix"} =>
          \A q \in Neighbours(recv) :
              res = <<Substitude(kind, ring, FALSE, q, argv[1]).val>>
    /\ op = "rsubstitude" =>
          \A q \in Neighbours(recv) :
              res = <<RSubstitude(kind, ring, FALSE, q, argv[1]).val>>
    /\ op = "reduce" => \A q \in Neighbours(recv) : p = Reduce(ring, q)

\* the terms of m at exponent e, in order
TermsAt(m, e) == SelectSeq(m, LAMBDA t : t.power = e)

\* C16 as stated: get, len, the substitutions and reduce return the same
\* result on every permutation of the term list.
CE_C16 ==
    /\ OrderFree
    /\ op = "get" => \A q \in Neighbours(recv) : res = <<PolyGet(q, argn)>>

\* C16: len, the substitutions in a commutative ring and reduce return
\* the same result on every permutation of the term list; get(e) returns
\* the coefficient of the first term at e in insertion order, the same
\* on every permutation only when the terms at e hold one coefficient.
Thm_C16 ==
    /\ OrderFree
    /\ op = "get" =>
          /\ res = <<IF TermsAt(recv, argn) = <<>> THEN <<>>
                     ELSE <<TermsAt(recv, argn)[1].coef>>>>
          /\ \A q \in Neighbours(recv) :
                (\A i, j \in 1..Len(recv) :
                    recv[i].power = argn /\ recv[j].power = argn
                        => recv[i].coef = recv[j].coef)
                    => res = <<PolyGet(q, argn)>>

\* get has answered on two terms of one exponent, and answers otherwise
\* when they are exchanged
Wit_C16 ==
    /\ op = "get"
    /\ Len(recv) = 2
    /\ recv[1].power = argn
    /\ recv[2].power = argn
    /\ res = <<<<recv[1].coef>>>>
    /\ PolyGet(SwapNext(recv, 1), argn) = <<recv[2].coef>>
    /\ recv[1].coef # recv[2].coef

\* C17: is_zero and is_one on a polynomial fail on every polynomial and
\* return no boolean; zero() and one() return the one-term constants
\* 0 * x^0 and 1 * x^0.
Thm_C17 ==
    /\ op \in {"is_zero", "is_one"} => panicked /\ res = NoRes
    /\ op = "zero" =>
          ~panicked /\ p = <<[coef |-> 0, power |-> U32(0, 0)]>>
    /\ op = "one" =>
          ~panicked /\ p = <<[coef |-> 1, power |-> U32(0, 0)]>>

\* is_zero has been asked of the polynomial zero() returns
Wit_C17 ==
    /\ op = "is_zero"
    /\ recv = PolyZero(ring)
    /\ panicked

\* the operations of the claim's list that the spec calls total, in Zn
ZnTotalOps ==
    {"new", "zero", "add", "sub", "mul", "add_assign", "sub_assign", "mul_assign"}

\* C18: apart from the listed failures every operation is total: Zn::new,
\* Zn::zero and Zn addition, subtraction and multiplication return for
\* every modulus.
CE_C18 == op \in ZnTotalOps => ~panicked

\* C19: for N >= 1 the stored value v of a Zn<N> satisfies 0 <= v < N
\* after any sequence of new, default, zero, one, +, -, *, +=, -=, *=.
Thm_C19 == ~U32IsZero(zn.n) => U32Lt(zn.v, zn.n)

\* a product that wrapped around 2^32 has been reduced below N = 2^16 + 1
Wit_C19 ==
    /\ op = "mul"
    /\ zn.n = U32(1, 1)
    /\ argv = <<U32(1, 0), U32(1, 0)>>
    /\ ~panicked
    /\ zn.v = U32(0, 0)

\* (a - b) mod n for a, b < n
RefSubMod(a, b, n) ==
    IF U32Lt(a, b) THEN U32WrappingSub(n, U32WrappingSub(b, a))
    ELSE U32WrappingSub(a, b)

\* (a * b) mod n for a, b < n, by doubling a modulo n
RECURSIVE RefMulModLoop(_, _)
RefMulModLoop(n, loc) ==
    IF U32IsZero(loc.b) THEN loc.acc
    ELSE RefMulModLoop(n, [acc |-> IF U32Odd(loc.b) THEN U32AddMod(loc.acc, loc.sh, n)
                                   ELSE loc.acc,
                           sh |-> U32AddMod(loc.sh, loc.sh, n),
                           b |-> U32Shr1(loc.b)])

RefMulMod(a, b, n) ==
    IF n = U32(0, 1) THEN U32(0, 0)
    ELSE RefMulModLoop(n, [acc |-> U32(0, 0), sh |-> a, b |-> b])

\* what the last operation of Zn returned is the residue modulo N
ResidueKept ==
    /\ op = "new" /\ zn.n[1] = 0 /\ argv[1][1] = 0 =>
          ~panicked /\ zn.v = U32(0, argv[1][2] % zn.n[2])
    /\ op \in {"add", "add_assign"} =>
          ~panicked /\ zn.v = U32AddMod(argv[1], argv[2], zn.n)
    /\ op \in {"sub", "sub_assign"} =>
          ~panicked /\ zn.v = RefSubMod(argv[1], argv[2], zn.n)
    /\ op \in {"mul", "mul_assign"} =>
          ~panicked /\ zn.v = RefMulMod(argv[1], argv[2], zn.n)

\* C20: for every N >= 1 of 32 bits and a, b in [0, N) addition,
\* subtraction and multiplication of Zn<N>, and their assigning forms,
\* return (a + b) mod N, (a - b) mod N and (a * b) mod N, and new(x)
\* holds x mod N; so 32 + 99 is 1 modulo 5 and 31 modulo 100, 2 - 4 is
\* 98 and 32 * 99 is 68 modulo 100.
CE_C20 ==
    ~U32IsZero(zn.n) =>
        /\ ResidueKept
        /\ ZnAddN(U32(0, 5), TRUE, ZnNewN(U32(0, 5), U32(0, 32)).val,
                  ZnNewN(U32(0, 5), U32(0, 99)).val).val = U32(0, 1)
        /\ ZnAddN(U32(0, 100), TRUE, U32(0, 32), U32(0, 99)).val = U32(0, 31)
        /\ ZnSubN(U32(0, 100), TRUE, U32(0, 2), U32(0, 4)).val = U32(0, 98)
        /\ ZnMulN(U32(0, 100), TRUE, U32(0, 32), U32(0, 99)).val = U32(0, 68)

\* C21: Zn<0>::one() fails and returns no value; for every N >= 1
\* Zn<N>::one() returns the value 1 mod N, and v * one == v for every
\* v in [0, N).
Thm_C21 ==
    op = "one" =>
        /\ U32IsZero(zn.n) => panicked
        /\ ~U32IsZero(zn.n) =>
              /\ ~panicked
              /\ zn.v = (IF zn.n = U32(0, 1) THEN U32(0, 0) ELSE U32(0, 1))
              /\ \A v \in ZnOperands(zn.n), chk \in BOOLEAN :
                    /\ ZnMulN(zn.n, chk, v, zn.v) = [panic |-> FALSE, val |-> v]
                    /\ ZnMulN(zn.n, chk, zn.v, v) = [panic |-> FALSE, val |-> v]

\* one() has been asked of Zn<0> and has panicked
Wit_C21 ==
    /\ op = "one"
    /\ U32IsZero(zn.n)
    /\ panicked

\* C22: for Zn<N> with N >= 1 (as for the primitive integers and the
\* square matrices) the value one() builds satisfies is_one(), the value
\* zero() builds satisfies is_zero(), and is_one() / is_zero() are true
\* of no other value.
CE_C22 ==
    ~U32IsZero(zn.n) =>
        /\ op = "is_one" => (res[1] <=> zn.v = ZnOneN(zn.n).val)
        /\ op = "is_zero" => (res[1] <=> zn.v = ZnZeroN(zn.n).val)

\* C23: from_data(list) and set_data(list) fail exactly when
\* len(list) # N * M; on success the matrix holds the list unchanged in
\* row-major order, and a failed set_data leaves the contents as they were.
Thm_C23 ==
    op \in {"from_data", "set_data"} =>
        /\ panicked <=> Len(argv[1]) # mat.n * mat.m
        /\ ~panicked =>
              /\ mat.data = argv[1]
              /\ \A i \in 0..(mat.n - 1), j \in 0..(mat.m - 1) :
                    MatrixIndex(mat, i, j) =
                        [panic |-> FALSE, val |-> argv[1][i * mat.m + j + 1]]
        /\ panicked => mat = recv
        /\ MatrixFromData(2, 2, <<1, 2, 3, 4, 5>>).panic
        /\ MatrixIndex(MatrixFromData(2, 2, <<1, 2, 3, 4>>).val, 2, 0).panic

\* set_data has failed on a list of five elements for a 2 x 2 matrix that
\* held other elements than zeros
Wit_C23 ==
    /\ op = "set_data"
    /\ panicked
    /\ mat.n = 2 /\ mat.m = 2
    /\ Len(argv[1]) = 5
    /\ mat.data = <<4, 3, 2, 1>>

\* C24: reading or writing at (i, j) fails exactly when i >= N or
\* j >= M; otherwise it accesses element i * M + j of the row-major
\* data, and a write changes that element only.
Thm_C24 ==
    /\ op \in {"index", "index_mut"} =>
          (panicked <=> argv[1] >= mat.n \/ argv[2] >= mat.m)
    /\ op = "index" =>
          /\ mat = recv
          /\ ~panicked => res = <<recv.data[argv[1] * mat.m + argv[2] + 1]>>
          /\ panicked => res = NoRes
    /\ op = "index_mut" =>
          /\ mat.n = recv.n /\ mat.m = recv.m
          /\ Len(mat.data) = Len(recv.data)
          /\ \A x \in 1..Len(recv.data) :
                mat.data[x] = (IF ~panicked /\ x = argv[1] * mat.m + argv[2] + 1
                               THEN argv[3] ELSE recv.data[x])

\* a read at column M of row 0 of a 2 x 2 matrix, an index inside the
\* data but outside the row, has failed
Wit_C24 ==
    /\ op = "index"
    /\ mat.n = 2 /\ mat.m = 2
    /\ argv = <<0, 2>>
    /\ mat.data = <<1, 2, 3, 4>>
    /\ panicked

\* C27: after any sequence of matrix operations every matrix holds
\* exactly N * M elements, and the product of an N x K and a K x M
\* matrix holds exactly N * M elements.
Thm_C27 ==
    /\ Len(mat.data) = mat.n * mat.m
    /\ op = "mul" =>
          /\ mat.n = recv.n
          /\ mat.m = argv[1].m
          /\ recv.m = argv[1].n
          /\ Len(mat.data) = recv.n * argv[1].m

\* a 2 x 1 matrix has been multiplied by a 1 x 2 one
Wit_C27 ==
    /\ op = "mul"
    /\ recv.n = 2 /\ recv.m = 1
    /\ argv[1].n = 1 /\ argv[1].m = 2
    /\ Len(mat.data) = 4

\* the number of bits of x < 2^16, and of a u32
BitLength16(x) == CHOOSE k \in 0..16 : x < 2 ^ k /\ (k = 0 \/ x >= 2 ^ (k - 1))

BitLength(u) == IF u[1] > 0 THEN 16 + BitLength16(u[1]) ELSE BitLength16(u[2])

\* the number of bits set in a u32
PopCount(u) == Cardinality({i \in 0..31 : U32Bit(u, i) = 1})

\* the call has returned after bitlength(e) passes, as many squarings
\* and popcount(e) multiplications into the accumulator
ReturnedInLogSteps ==
    /\ loop.pc = "returned"
    /\ loop.iters = BitLength(loop.power)
    /\ loop.iters <= 32
    /\ U32IsZero(loop.power) => loop.iters = 0
    /\ loop.squarings = BitLength(loop.power)
    /\ loop.mults = PopCount(loop.power)
    /\ ~U32Lt(U32OfNat(2000000000), loop.power) =>
          loop.squarings <= 31 /\ loop.mults <= 31

\* C25: for every 32-bit exponent e the loop of Powered::substitude
\* terminates after exactly bitlength(e) passes (at most 32, none for
\* e = 0), with bitlength(e) squarings and popcount(e) multiplications
\* into the accumulator: at most 31 + 31 for exponents up to 2,000,000,000.
Thm_C25 == <>ReturnedInLogSteps

\* the call for e = 2,000,000,000 has returned after 31 passes
Wit_C25 ==
    /\ loop.pc = "returned"
    /\ loop.power = U32OfNat(2000000000)
    /\ loop.iters = 31
    /\ loop.squarings = 31
    /\ loop.mults = 13

\* the terms of m, each coefficient multiplied by one on the left
TimesOne(r, m) ==
    [i \in 1..Len(m) |-> [coef |-> TMul(r, TOne(r), m[i].coef), power |-> m[i].power]]

\* C26: exponent arithmetic never wraps or fails within the 32-bit
\* range: p.pow(1) returns exactly the terms of p (coefficient one * c,
\* exponent unchanged, same order), whatever the exponent sums of the
\* final squaring of the running base.
CE_C26 ==
    op = "pow" /\ argn = U32(0, 1) =>
        /\ ~panicked
        /\ p = TimesOne(ring, recv)

\* m.substitude(v) at a value of the coefficient ring
Eval(r, m, v) == Substitude("t", r, FALSE, m, v).val

\* the sum, the product and the power are evaluated to the sum, the
\* product and the power of the values, wherever the call returned
Homomorphic ==
    /\ op = "add" =>
          \A v \in Values(ring) :
              Eval(ring, p, v) = TAdd(ring, Eval(ring, recv, v), Eval(ring, argp, v))
    /\ op = "mul" =>
          \A v \in Values(ring) :
              Eval(ring, p, v) = TMul(ring, Eval(ring, recv, v), Eval(ring, argp, v))
    /\ op = "pow" =>
          \A v \in Values(ring) :
              Eval(ring, p, v) = NaivePow("t", ring, Eval(ring, recv, v), Nat32(argn))

\* the exponents of the result of the last operation fit 32 bits
Representable ==
    /\ op = "mul" => ~PolyMulOverflows(recv, argp)
    /\ op = "pow" => ~RepProdOverflows(ring, recv, Nat32(argn))

\* C28: evaluation is a ring homomorphism on unreduced polynomials over
\* a commutative ring: (a + b)(v) = a(v) + b(v), (a * b)(v) = a(v) * b(v)
\* and a.pow(n)(v) = a(v)^n at every point v, for every a, b and n whose
\* sum, product and power have exponents of 32 bits.
CE_C28 ==
    op \in {"add", "mul", "pow"} /\ Representable => ~panicked /\ Homomorphic
====
